---- MODULE Spec2Model ----
(***************************************************************************)
(* Two programs of the repository.                                         *)
(*                                                                         *)
(* 1. "Delete element from vector-array": class func keeps a raw array     *)
(*    (owned by main, passed to every method), a std::vector, the last     *)
(*    position read from cin and an unsigned size counter.  input fills    *)
(*    both stores, del_elem shifts both left from a position and           *)
(*    decrements size, output renders both.  (Spec, variables arr ... out) *)
(*                                                                         *)
(* 2. The std::jthread demo: main starts three jthreads, joins the first,  *)
(*    requests its stop, detaches the second, joins the third.             *)
(*    (SpecThreads, variables mainPc ... cout)                             *)
(***************************************************************************)
EXTENDS Integers, Sequences, FiniteSets, TLC

VARIABLES
    arr,        \* int array[10] of main: 0..Capacity-1 -> value
    vector1,    \* func::vector1, a sequence (index i of the code is i+1 here)
    position,   \* func::position
    size,       \* func::size, unsigned
    inputs,     \* number of calls of func::input made so far
    lastOp,     \* the method the driver called last
    status,     \* "running", or "crashed" once undefined behaviour killed the run
    touched,    \* indices of the stores the last call read or wrote
    out,        \* what the last call wrote to cout
    cin,        \* the integers input has read from cin, in order
    mainPc,     \* jthread demo: main's position
    stopPc,     \* jthread demo: position of the thread running stop_thread
    childPc,    \* jthread demo: position of the thread running detached_thread
    pausePc,    \* jthread demo: position of the thread running pause_thread
    stopAsked,  \* jthread demo: stop_exec's stop source has a stop request
    detached,   \* jthread demo: child_thread was detached
    cout        \* jthread demo: the lines printed so far

seqVars == <<arr, vector1, position, size, inputs, lastOp, status, touched, out, cin>>

thrVars == <<mainPc, stopPc, childPc, pausePc, stopAsked, detached, cout>>

vars == <<seqVars, thrVars>>

-----------------------------------------------------------------------------
(* Constants of the program and bounds of the model                        *)

\* unsigned long long size = 10; int array[10]
Capacity == 10

\* unsigned long long and size_t are 64 bits wide.  TLC's integers are 32 bits
\* wide, so the width is scaled down: all that the code's arithmetic needs of
\* it is the wrap of 0 - 1 to the largest value, far above Capacity.
WordBits == 5

Modulus == 2 ^ WordBits

\* how many times the driver of SpecRepopulate may call input
MaxInputs == 2

\* how many calls of del_elem the model follows once size has wrapped
MaxWrapped == 1

\* the streams cin can deliver to input
NumStreams == 1

\* positions read from cin range over -PosSlack .. Capacity + PosSlack
PosSlack == 1

Positions == (0 - PosSlack) .. (Capacity + PosSlack)

\* the n-th integer of stream k: stream 1 is 0,1,0,1,...: neighbours differ;
\* stream 2 is 0,0,0,...; stream 3 is stream 1 again
CinValue(k, n) == (k * n) % 2

\* An indeterminate value: what a read of an uninitialised int or of memory
\* past the end of the raw array yields.  The program only copies values, so
\* the unknown is kept symbolic; it is no value cin delivers.
ArrGarbage == 0 - 1

\* The same, for memory past the end of the vector's elements.
VecGarbage == 0 - 2

-----------------------------------------------------------------------------
(* Unsigned arithmetic                                                     *)

\* the conversion of an int to size_t (size_t i = position)
ToSizeT(p) == p % Modulus

\* size - 1 and size-- on unsigned long long
Dec(n) == (n - 1) % Modulus

Min(a, b) == IF a < b THEN a ELSE b

-----------------------------------------------------------------------------
(* Accesses to the stores.  An index past the end is undefined behaviour:  *)
(* when the run survives it, the read yields an indeterminate value and    *)
(* the write lands in memory that is not part of the stores.               *)

ArrLoad(a, j) == IF j \in DOMAIN a THEN a[j] ELSE ArrGarbage

ArrStore(a, j, v) == IF j \in DOMAIN a THEN [a EXCEPT ![j] = v] ELSE a

VecLoad(v, j) == IF j + 1 \in DOMAIN v THEN v[j + 1] ELSE VecGarbage

VecStore(v, j, x) == IF j + 1 \in DOMAIN v THEN [v EXCEPT ![j + 1] = x] ELSE v

-----------------------------------------------------------------------------
(* func::del_elem's loop                                                   *)
(*   for (size_t i = position; i < size-1; i++) {                          *)
(*       arr[i] = arr[i+1];  vector1[i] = vector1[i+1];  }                 *)

\* a slip in the loop: the copy runs the other way, arr[i+1] = arr[i]
RECURSIVE ArrShiftReversed(_, _, _)
ArrShiftReversed(a, i, bound) ==
    IF i < bound /\ i \in DOMAIN a
    THEN ArrShiftReversed(ArrStore(a, i + 1, ArrLoad(a, i)), i + 1, bound)
    ELSE a

\* (an iteration with i past the end of the store neither reads nor writes
\* the store, and so do all the iterations after it: the recursion stops there)
RECURSIVE ArrShift(_, _, _)
ArrShift(a, i, bound) ==
    IF i < bound /\ i \in DOMAIN a
    THEN ArrShift(ArrStore(a, i, ArrLoad(a, i + 1)), i + 1, bound)
    ELSE a

\* a slip in the loop: the vector is shifted from position + 1 on
RECURSIVE VecShiftLate(_, _, _)
VecShiftLate(v, i, bound) ==
    IF i + 1 < bound /\ i + 1 \in DOMAIN v
    THEN VecShiftLate(VecStore(v, i + 1, VecLoad(v, i + 2)), i + 1, bound)
    ELSE v

RECURSIVE VecShift(_, _, _)
VecShift(v, i, bound) ==
    IF i < bound /\ i + 1 \in DOMAIN v
    THEN VecShift(VecStore(v, i, VecLoad(v, i + 1)), i + 1, bound)
    ELSE v

\* the indices the loop reads or writes when it runs from start up to bound
LoopIndices(start, bound) == IF start < bound THEN start .. bound ELSE {}

\* the loop leaves a store: some i + 1 it reads is past the end of one of them
Overruns(start, bound) ==
    /\ start < bound
    /\ \/ bound \notin DOMAIN arr
       \/ bound + 1 \notin DOMAIN vector1

\* the iteration whose read of i + 1 is the first one past the end of a store
FaultAt(start) ==
    LET end == Min(Capacity, Len(vector1))
    IN  IF start > end - 1 THEN start ELSE end - 1

-----------------------------------------------------------------------------
(* func::output's two loops                                                *)

ArrView(a, n) == [i \in 1 .. n |-> ArrLoad(a, i - 1)]

VecView(v, n) == [i \in 1 .. n |-> VecLoad(v, i - 1)]

Silent == [prompt |-> FALSE, array |-> <<>>, vector |-> <<>>]


-----------------------------------------------------------------------------
(* The state after construction: int array[10]; func functions; and, for   *)
(* the jthread demo, main about to construct its first thread.             *)

InitSeq ==
    /\ arr = [i \in 0 .. Capacity - 1 |-> ArrGarbage]
    /\ vector1 = <<>>
    /\ position = 0
    /\ size = Capacity
    /\ inputs = 0
    /\ lastOp = "none"
    /\ status = "running"
    /\ touched = {}
    /\ out = Silent
    /\ cin = <<>>

InitThreads ==
    /\ mainPc = "start_stop_exec"
    /\ stopPc = "unstarted"
    /\ childPc = "unstarted"
    /\ pausePc = "unstarted"
    /\ stopAsked = FALSE
    /\ detached = FALSE
    /\ cout = <<>>

Init == InitSeq /\ InitThreads

-----------------------------------------------------------------------------
(* func::input: reads size integers of stream k into arr and appends each  *)
(* to vector1.  With size above Capacity the writes leave the array: the   *)
(* run goes on, or it dies at the first write past the end.                *)

\* a slip in input: push_back before the read, so that the vector receives
\* what the array held before
InputPushFirst(k) ==
    /\ status = "running"
    /\ inputs < MaxInputs
    /\ inputs' = inputs + 1
    /\ lastOp' = "input"
    /\ out' = Silent
    /\ UNCHANGED <<position, size, thrVars>>
    /\ arr' = [i \in DOMAIN arr |-> IF i < size THEN CinValue(k, i) ELSE arr[i]]
    /\ vector1' = vector1 \o [i \in 1 .. size |-> ArrLoad(arr, i - 1)]
    /\ cin' = cin \o [i \in 1 .. size |-> CinValue(k, i - 1)]
    /\ touched' = 0 .. size - 1
    /\ status' = status

Input(k) ==
    /\ status = "running"
    /\ inputs < MaxInputs
    /\ inputs' = inputs + 1
    /\ lastOp' = "input"
    /\ out' = Silent
    /\ UNCHANGED <<position, size, thrVars>>
    /\ \/ /\ arr' = [i \in DOMAIN arr |-> IF i < size THEN CinValue(k, i) ELSE arr[i]]
          /\ vector1' = vector1 \o [i \in 1 .. size |-> CinValue(k, i - 1)]
          /\ cin' = cin \o [i \in 1 .. size |-> CinValue(k, i - 1)]
          /\ touched' = 0 .. size - 1
          /\ status' = status
       \/ /\ size > Capacity
          /\ arr' = [i \in DOMAIN arr |-> CinValue(k, i)]
          /\ vector1' = vector1 \o [i \in 1 .. Capacity |-> CinValue(k, i - 1)]
          /\ cin' = cin \o [i \in 1 .. Capacity + 1 |-> CinValue(k, i - 1)]
          /\ touched' = 0 .. Capacity
          /\ status' = "crashed"

-----------------------------------------------------------------------------
(* func::del_elem: prompts, reads position, shifts both stores left from   *)
(* it up to size-1 and decrements size.  Neither position nor size is      *)
(* checked.  When the loop leaves a store the run goes on (first           *)
(* disjunct), or it dies at the first access past the end (second).        *)

DelElem(p) ==
    LET start == ToSizeT(p)
        bound == Dec(size)
    IN  /\ status = "running"
        /\ position' = p
        /\ lastOp' = "del_elem"
        /\ out' = [Silent EXCEPT !.prompt = TRUE]
        /\ UNCHANGED <<inputs, cin, thrVars>>
        /\ \/ /\ arr' = ArrShift(arr, start, bound)
              /\ vector1' = VecShift(vector1, start, bound)
              /\ size' = Dec(size)
              /\ touched' = LoopIndices(start, bound)
              /\ status' = status
           \/ /\ Overruns(start, bound)
              /\ arr' = ArrShift(arr, start, FaultAt(start))
              /\ vector1' = VecShift(vector1, start, FaultAt(start))
              /\ size' = size
              /\ touched' = start .. FaultAt(start) + 1
              /\ status' = "crashed"

-----------------------------------------------------------------------------
(* func::output: prints arr[0..size) and then vector1[0..size).  With size *)
(* above Capacity the first loop reads past the end of the array.          *)

\* a slip in output: the loops count size down instead of counting i up
OutputDraining ==
    /\ status = "running"
    /\ size <= Capacity
    /\ lastOp' = "output"
    /\ UNCHANGED <<arr, vector1, position, inputs, cin, thrVars>>
    /\ out' = [prompt |-> FALSE,
               array |-> ArrView(arr, size),
               vector |-> VecView(vector1, size)]
    /\ size' = 0
    /\ touched' = 0 .. size - 1
    /\ status' = status

Output ==
    /\ status = "running"
    /\ lastOp' = "output"
    /\ UNCHANGED <<arr, vector1, position, size, inputs, cin, thrVars>>
    /\ \/ /\ out' = [prompt |-> FALSE,
                     array |-> ArrView(arr, size),
                     vector |-> VecView(vector1, size)]
          /\ touched' = 0 .. size - 1
          /\ status' = status
       \/ /\ size > Capacity
          /\ out' = [prompt |-> FALSE,
                     array |-> ArrView(arr, Capacity),
                     vector |-> <<>>]
          /\ touched' = 0 .. Capacity
          /\ status' = "crashed"

-----------------------------------------------------------------------------
(* The drivers.  main calls input, del_elem and output once each, in this  *)
(* order; the drivers generalise it.                                       *)

\* the model follows a run up to MaxWrapped calls of del_elem past the wrap
\* of size (the code would need 2^64 calls to bring size back to Capacity)
Followed == size <= Capacity \/ size >= Modulus - MaxWrapped

\* positions outside the range of every length: removals at them only
\* shrink size
OutOfRange == {p \in Positions : p < 0 \/ p >= Capacity}

\* Spec: one input, then del_elem and output in any order
Populate == \E k \in 1 .. NumStreams : inputs = 0 /\ Input(k)

Remove == \E p \in Positions : inputs >= 1 /\ Followed /\ DelElem(p)

Render == inputs >= 1 /\ Output

Next == Populate \/ Remove \/ Render

Spec == Init /\ [][Next]_vars

\* SpecRepopulate: input may be called again at any time; the removals in
\* between are at out-of-range positions
PopulateAgain == \E k \in 1 .. NumStreams : Input(k)

Shrink == \E p \in OutOfRange : inputs >= 1 /\ Followed /\ DelElem(p)

NextRepopulate == PopulateAgain \/ Shrink \/ Render

SpecRepopulate == Init /\ [][NextRepopulate]_vars

-----------------------------------------------------------------------------
(* The std::jthread demo.  main names the third thread's function          *)
(* paused_thread and joins thread_pause; neither is declared: they are     *)
(* read as pause_thread and thread_paused.                                 *)
(*                                                                         *)
(* A std::jthread starts running its function when it is constructed;      *)
(* join blocks the caller until that function has returned.                *)

\* std::jthread stop_exec(stop_thread, token);
StartStopExec ==
    /\ mainPc = "start_stop_exec"
    /\ mainPc' = "start_child"
    /\ stopPc' = "print_before"
    /\ UNCHANGED <<childPc, pausePc, stopAsked, detached, cout, seqVars>>

\* std::jthread child_thread(detached_thread);
StartChild ==
    /\ mainPc = "start_child"
    /\ mainPc' = "start_paused"
    /\ childPc' = "print"
    /\ UNCHANGED <<stopPc, pausePc, stopAsked, detached, cout, seqVars>>

\* std::jthread thread_paused(paused_thread);
StartPaused ==
    /\ mainPc = "start_paused"
    /\ mainPc' = "join_stop_exec"
    /\ pausePc' = "sleep"
    /\ UNCHANGED <<stopPc, childPc, stopAsked, detached, cout, seqVars>>

\* stop_exec.join();
JoinStopExec ==
    /\ mainPc = "join_stop_exec"
    /\ stopPc = "done"
    /\ mainPc' = "request_stop"
    /\ UNCHANGED <<stopPc, childPc, pausePc, stopAsked, detached, cout, seqVars>>

\* stop_exec.request_stop();
RequestStop ==
    /\ mainPc = "request_stop"
    /\ mainPc' = "detach"
    /\ stopAsked' = TRUE
    /\ UNCHANGED <<stopPc, childPc, pausePc, detached, cout, seqVars>>

\* child_thread.detach();
Detach ==
    /\ mainPc = "detach"
    /\ mainPc' = "check_joinable"
    /\ detached' = TRUE
    /\ UNCHANGED <<stopPc, childPc, pausePc, stopAsked, cout, seqVars>>

\* if (child_thread.joinable()) { child_thread.join(); }
CheckJoinable ==
    /\ mainPc = "check_joinable"
    /\ mainPc' = IF detached THEN "join_paused" ELSE "join_child"
    /\ UNCHANGED <<stopPc, childPc, pausePc, stopAsked, detached, cout, seqVars>>

\* thread_pause.join();
JoinPaused ==
    /\ mainPc = "join_paused"
    /\ pausePc = "done"
    /\ mainPc' = "return"
    /\ UNCHANGED <<stopPc, childPc, pausePc, stopAsked, detached, cout, seqVars>>

\* return 0; the process exits and takes a detached thread still running
\* with it
Return ==
    /\ mainPc = "return"
    /\ mainPc' = "exited"
    /\ UNCHANGED <<stopPc, childPc, pausePc, stopAsked, detached, cout, seqVars>>

\* Each std::cout << "..." << std::endl is two insertions, the text and then
\* the line end; insertions of other threads may fall between them.

\* stop_thread: std::cout << "printing before stop"
StopPrintBefore ==
    /\ mainPc # "exited"
    /\ stopPc = "print_before"
    /\ stopPc' = "endl_before"
    /\ cout' = Append(cout, "printing before stop")
    /\ UNCHANGED <<mainPc, childPc, pausePc, stopAsked, detached, seqVars>>

\* stop_thread: << std::endl
StopEndlBefore ==
    /\ mainPc # "exited"
    /\ stopPc = "endl_before"
    /\ stopPc' = "check_token"
    /\ cout' = Append(cout, "endl")
    /\ UNCHANGED <<mainPc, childPc, pausePc, stopAsked, detached, seqVars>>

\* stop_thread: if (token.stop_requested()) return;  The token is main's
\* default-constructed std::stop_token, which has no stop state: it never
\* reports a request, whatever stop_exec's own stop source holds.
StopCheckToken ==
    /\ mainPc # "exited"
    /\ stopPc = "check_token"
    /\ stopPc' = "print_not_stopped"
    /\ UNCHANGED <<mainPc, childPc, pausePc, stopAsked, detached, cout, seqVars>>

\* stop_thread: std::cout << "thread not stopped"
StopPrintNotStopped ==
    /\ mainPc # "exited"
    /\ stopPc = "print_not_stopped"
    /\ stopPc' = "endl_not_stopped"
    /\ cout' = Append(cout, "thread not stopped")
    /\ UNCHANGED <<mainPc, childPc, pausePc, stopAsked, detached, seqVars>>

\* stop_thread: << std::endl, and the return
StopEndlNotStopped ==
    /\ mainPc # "exited"
    /\ stopPc = "endl_not_stopped"
    /\ stopPc' = "done"
    /\ cout' = Append(cout, "endl")
    /\ UNCHANGED <<mainPc, childPc, pausePc, stopAsked, detached, seqVars>>

\* detached_thread: std::cout << "Printing with child thread"
ChildPrint ==
    /\ mainPc # "exited"
    /\ childPc = "print"
    /\ childPc' = "endl"
    /\ cout' = Append(cout, "Printing with child thread")
    /\ UNCHANGED <<mainPc, stopPc, pausePc, stopAsked, detached, seqVars>>

\* detached_thread: << std::endl, and the return
ChildEndl ==
    /\ mainPc # "exited"
    /\ childPc = "endl"
    /\ childPc' = "done"
    /\ cout' = Append(cout, "endl")
    /\ UNCHANGED <<mainPc, stopPc, pausePc, stopAsked, detached, seqVars>>

\* pause_thread: std::this_thread::sleep_for(std::chrono::seconds(2))
PauseSleep ==
    /\ mainPc # "exited"
    /\ pausePc = "sleep"
    /\ pausePc' = "done"
    /\ UNCHANGED <<mainPc, stopPc, childPc, stopAsked, detached, cout, seqVars>>

NextThreads ==
    \/ StartStopExec \/ StartChild \/ StartPaused \/ JoinStopExec
    \/ RequestStop \/ Detach \/ CheckJoinable \/ JoinPaused \/ Return
    \/ StopPrintBefore \/ StopEndlBefore \/ StopCheckToken
    \/ StopPrintNotStopped \/ StopEndlNotStopped
    \/ ChildPrint \/ ChildEndl \/ PauseSleep

SpecThreads == Init /\ [][NextThreads]_vars

-----------------------------------------------------------------------------
(* Properties of the element-removal program                               *)

\* a step that is a call of func::del_elem
IsRemoval == lastOp' = "del_elem"

\* the position read by the call is inside the logical range it found
ValidRemoval == IsRemoval /\ size \in 1 .. Capacity /\ position' \in 0 .. size - 1

\* C1: a removal at a position p with 0 <= p < length, 1 <= length <= capacity,
\* leaves length - 1 elements: those below p unchanged, each later one moved
\* down by one index, in both stores.
C1_RemovalDeletesIndex ==
    [][ValidRemoval =>
          /\ status' = "running"
          /\ size' = size - 1
          /\ \A i \in 0 .. size - 2 :
                /\ arr'[i] = (IF i < position' THEN arr[i] ELSE arr[i + 1])
                /\ vector1'[i + 1] =
                      (IF i < position' THEN vector1[i + 1] ELSE vector1[i + 2])
       ]_vars

\* a removal below the last index has just shifted the elements after it
C1_Witness ==
    /\ lastOp = "del_elem"
    /\ status = "running"
    /\ size \in 1 .. Capacity - 1
    /\ position \in 0 .. size - 1
    /\ touched = position .. size

\* C2: a removal at a position outside [0, length) is rejected and mutates
\* nothing: length and both stores are as before the call.
C2_InvalidPositionMutatesNothing ==
    [][(IsRemoval /\ (position' < 0 \/ position' >= size)) =>
          (arr' = arr /\ vector1' = vector1 /\ size' = size)
       ]_vars

\* C3: 0 <= length <= capacity in every state; the unsigned counter never
\* wraps below zero (a wrapped counter is a value above capacity).
C3_LengthWithinCapacity == size \in 0 .. Capacity

\* C4: every index a removal reads or writes lies inside [0, length), the
\* length being the one at the start of the call.
C4_AccessesInsideLogicalRange ==
    [][IsRemoval => touched' \subseteq 0 .. size - 1]_vars

\* C5: removals at valid positions take exactly one element each, down to
\* length 0, and a removal on the empty sequence fails and leaves length 0.
C5_RemovalOnEmptyLeavesLengthZero ==
    [][IsRemoval =>
          /\ ValidRemoval => size' = size - 1
          /\ size = 0 => size' = 0
       ]_vars

C7_RepopulateMutatesNothing ==
    [][(lastOp' = "input" /\ inputs >= 1) =>
          (arr' = arr /\ vector1' = vector1 /\ size' = size)
       ]_vars

\* C8: output leaves length, position and both stores unchanged, and a call
\* of output right after another one renders the same sequences.
C8_SnapshotMutatesNothing ==
    [][lastOp' = "output" =>
          /\ arr' = arr
          /\ vector1' = vector1
          /\ size' = size
          /\ position' = position
          /\ (lastOp = "output" /\ status' = "running") => out' = out
       ]_vars

\* output has rendered a sequence from which elements were removed
C8_Witness ==
    /\ lastOp = "output"
    /\ status = "running"
    /\ size \in 1 .. Capacity - 1
    /\ Len(out.array) = size
    /\ Len(out.vector) = size

\* C10: after a single input, while size has not wrapped, the array and the
\* vector agree at every index below size, output renders the same sequence
\* for both, and the vector still holds Capacity elements.
C10_StoresInLockstep ==
    (inputs = 1 /\ size <= Capacity) =>
        /\ Len(vector1) = Capacity
        /\ \A i \in 0 .. size - 1 : arr[i] = vector1[i + 1]
        /\ (lastOp = "output" => out.array = out.vector)

\* a removal at a valid position has shifted both stores, size has shrunk
C10_Witness ==
    /\ inputs = 1
    /\ lastOp = "del_elem"
    /\ status = "running"
    /\ size \in 2 .. Capacity - 1
    /\ position \in 0 .. size - 1
    /\ Len(vector1) = Capacity
    /\ arr[position] # arr[size]

-----------------------------------------------------------------------------
(* Property of the jthread demo                                            *)

\* the thread has executed a statement of its function
StopBegan == stopPc \notin {"unstarted", "print_before"}

ChildBegan == childPc \notin {"unstarted", "print"}

PauseBegan == pausePc = "done"

\* C9: the threads run one after the other, in join order: the function of
\* detached_thread does not begin (and prints nothing) before stop_thread
\* has returned, nor pause_thread's before detached_thread has returned.
C9_SequentialInJoinOrder ==
    /\ ChildBegan => stopPc = "done"
    /\ PauseBegan => childPc = "done"

====
